---- MODULE Spec2Model ----
(***************************************************************************)
(* High-level event mining (hlem-framework): the analysis scripts of       *)
(* bpic2017_analysis / bpic2020_analysis and the mining core they call.    *)
(*                                                                         *)
(* Numbers that the Python code keeps as floats in [0,1] (P, CO_THRESH,    *)
(* CO_PATH_THRESH, SEG_PERCENTILE) are kept in tenths: 9 stands for 0.9.   *)
(* A documented percentile 50 < p < 100 is 500 < p < 1000 in tenths.       *)
(***************************************************************************)
EXTENDS Integers, Sequences, FiniteSets, TLC

VARIABLES
    pc,                 \* position in the analysis script
    log,                \* the event log handed to main
    cfg,                \* the arguments main is called with
    hle_all_dic,        \* main's first result: HLE id -> HLE
    hla_paths_dict,     \* main's second result: path tuple -> <<frequency, cases>>
    control_flow_dict,  \* case id -> activity sequence
    df_paths,           \* gather_statistics' rows
    error,              \* the exception that ended the script, or "none"
    successful_cases, unsuccessful_cases, outcome_throughput,
    results_df,         \* results_outcome's return value
    eval_df,            \* the table throughput_tables writes
    b_chains,           \* path builder: the chains discovered so far
    b_pending,          \* path builder: start HLEs whose shard is not merged yet
    b_merged,           \* path builder: the merged shard outputs
    hle_stats,          \* the table print_hle_statistics writes
    logged,             \* results_outcome's closing log message
    frames,             \* the frames the windowing produced for a case
    resources_set,      \* get_resources' result
    files,              \* the file system: path -> content
    load_calls          \* the load_event_log calls made: path, source read, log returned

vars == <<pc, log, cfg, hle_all_dic, hla_paths_dict, control_flow_dict, df_paths,
          error, successful_cases, unsuccessful_cases, outcome_throughput,
          results_df, eval_df, b_chains, b_pending, b_merged,
          hle_stats, logged, frames, resources_set, files, load_calls>>

build_vars == <<b_chains, b_pending, b_merged>>

script_vars == <<hle_stats, logged, frames, resources_set, files, load_calls>>

---------------------------------------------------------------------------
(* Bounds of the model *)
MaxCases == 3           \* a mined log has 1..MaxCases traces
StatCases == 6          \* cases of the universe the statistics are tested on
MaxEvents == 3          \* a windowed case has 1..MaxEvents events
MaxTime == 16           \* timestamps are 0..MaxTime, in half days
MaxTraces == 2          \* a preprocessed log has 0..MaxTraces traces
MaxCalls == 3           \* load_event_log is called at most MaxCalls times

(* Module-level configuration of main.py *)
TRAFFIC_TYPE == "High"
FRAME == "days"
P == 9
CO_THRESH == 5
CO_PATH_THRESH == 5
RES_INFO == TRUE
ONLY_MAXIMAL_PATHS == TRUE
PATH_FREQUENCY == 10
ACT_SELECTION == "all"
SEG_METHOD == "df"
TYPE_BASED == FALSE
SEG_PERCENTILE == 9

---------------------------------------------------------------------------
(* Generic helpers *)
Range(s) == {s[i] : i \in DOMAIN s}

Min(a, b) == IF a <= b THEN a ELSE b

EmptyMap == [x \in {} |-> {}]

---------------------------------------------------------------------------
(* HLE Classifier (spec section 4.2) *)

\* k-th smallest (1-based) of the values of a non-empty sequence
KthSmallest(vals, k) ==
    CHOOSE v \in Range(vals) :
        /\ Cardinality({i \in DOMAIN vals : vals[i] <= v}) >= k
        /\ \A w \in Range(vals) :
              Cardinality({i \in DOMAIN vals : vals[i] <= w}) >= k => v <= w

\* the q-th percentile (q in tenths of 1) of vals, linearly interpolated
\* between order statistics; the result is in tenths
Percentile10(vals, q) ==
    LET n   == Len(vals)
        pos == q * (n - 1)
        lo  == (pos \div 10) + 1
        hi  == Min(lo + 1, n)
        fr  == pos % 10
    IN  10 * KthSmallest(vals, lo)
          + fr * (KthSmallest(vals, hi) - KthSmallest(vals, lo))

\* the traffic labels requested by traffic_type: 'High', 'Low' or ['High','Low']
traffic_of_interest(traffic_type) ==
    IF traffic_type = "High" THEN {"High"}
    ELSE IF traffic_type = "Low" THEN {"Low"}
    ELSE {"High", "Low"}

\* High only above the threshold
is_high_strict(v, vals, p) == 10 * v > Percentile10(vals, p)

\* value >= threshold at the p-th percentile
is_high(v, vals, p) == 10 * v >= Percentile10(vals, p)

\* value below the complementary (100-p)-th percentile
is_low(v, vals, p) == 10 * v < Percentile10(vals, 10 - p)

\* labels a value of the group receives under traffic_type
classify(v, vals, p, traffic_type) ==
    {l \in traffic_of_interest(traffic_type) :
        \/ l = "High" /\ is_high(v, vals, p)
        \/ l = "Low" /\ is_low(v, vals, p)}

---------------------------------------------------------------------------
(* The event log.  A case is a record [trace, load]: its activity sequence  *)
(* and the measurement the feature extractor takes of it in each of its     *)
(* segments.  Case ids are the indices 0..len(log)-1.                       *)

TraceSet == { <<"a", "b", "c", "d">>, <<"a", "b">>, <<"b", "c", "d">> }
LoadSet == {1, 2}

CaseSet == [trace : TraceSet, load : LoadSet]

\* spec 8: HLEs with participating sets {1,2,3} and {2,3,4} (here cases 0..3)
ScenarioOverlapLog ==
    (0 :> [trace |-> <<"a", "b">>, load |-> 2])
    @@ (1 :> [trace |-> <<"a", "b", "c", "d">>, load |-> 2])
    @@ (2 :> [trace |-> <<"a", "b", "c", "d">>, load |-> 2])
    @@ (3 :> [trace |-> <<"b", "c", "d">>, load |-> 2])

\* spec 8: three cases, feature values [10, 2, 9]
ScenarioPercentileLog ==
    (0 :> [trace |-> <<"a", "b">>, load |-> 10])
    @@ (1 :> [trace |-> <<"a", "b">>, load |-> 2])
    @@ (2 :> [trace |-> <<"a", "b">>, load |-> 9])

Logs ==
    UNION {[0..(n - 1) -> CaseSet] : n \in 1..MaxCases}
        \cup {ScenarioOverlapLog, ScenarioPercentileLog}

case_ids(l) == DOMAIN l

\* directly-follows segments of one trace
segments_of(t) == {<<t[i], t[i + 1]>> : i \in 1..(Len(t) - 1)}

\* the steps set under seg_method = 'df': every segment some case takes
steps_list(l) == UNION {segments_of(l[c].trace) : c \in case_ids(l)}

\* Windowing & Feature Extractor (spec 4.1): value of a case for an entity;
\* an entity absent from the case yields an explicit zero
feature_value(l, c, entity) ==
    IF entity \in segments_of(l[c].trace) THEN l[c].load ELSE 0

\* the values of one (feature-type, entity) group, one per case, as a sequence
group_of(l, entity) ==
    [i \in 1..Cardinality(case_ids(l)) |-> feature_value(l, i - 1, entity)]

---------------------------------------------------------------------------
(* High-level events (spec 3, 4.2) *)

HleId(frame, entity, ftype, label) ==
    [frame |-> frame, entity |-> entity, ftype |-> ftype, label |-> label]

Hle(ftype, entity, frame, label, cases) ==
    ("f-type" :> ftype) @@ [entity |-> entity, frame |-> frame,
                            label |-> label, cases |-> cases]

\* cases whose value in the group gets the label
labelled_cases(l, entity, p, traffic_type, label) ==
    {c \in case_ids(l) :
        label \in classify(feature_value(l, c, entity), group_of(l, entity),
                           p, traffic_type)}

\* HLE Classifier: one HLE per (frame, entity, feature-type, label) with a
\* non-empty set of participating cases
hle_generation(l, traffic_type, selected_f_list, p) ==
    LET ids == {HleId(0, e, f, lab) :
                   e \in steps_list(l), f \in Range(selected_f_list),
                   lab \in traffic_of_interest(traffic_type)}
        live == {id \in ids :
                   labelled_cases(l, id.entity, p, traffic_type, id.label) # {}}
    IN  [id \in live |->
            Hle(id.ftype, id.entity, id.frame, id.label,
                labelled_cases(l, id.entity, p, traffic_type, id.label))]

---------------------------------------------------------------------------
(* Overlap Path Builder (spec 4.3).  A chain is a sequence of HLE ids.      *)

\* directly-follows adjacency: the end of one segment is the start of the next
adjacent(e1, e2) == e1[2] = e2[1]

\* the fraction of one set's cases also in the other exceeds thresh (tenths)
\* in at least one direction
overlap_exceeds(A, B, thresh) ==
    LET common == Cardinality(A \cap B)
    IN  \/ A # {} /\ 10 * common > thresh * Cardinality(A)
        \/ B # {} /\ 10 * common > thresh * Cardinality(B)

\* participating cases pooled over the chain's HLEs
chain_cases_union(hles, ch) == UNION {hles[ch[i]].cases : i \in DOMAIN ch}

RECURSIVE chain_cases(_, _)
\* participating cases of a chain: the cases common to all of its HLEs
chain_cases(hles, ch) ==
    IF Len(ch) = 1 THEN hles[ch[1]].cases
    ELSE chain_cases(hles, SubSeq(ch, 1, Len(ch) - 1)) \cap hles[ch[Len(ch)]].cases

\* may HLE g extend chain ch?  co_thresh decides the first link,
\* co_path_thresh every later one
can_extend(hles, ch, g, co_thresh, co_path_thresh) ==
    /\ g \notin Range(ch)
    /\ adjacent(hles[ch[Len(ch)]].entity, hles[g].entity)
    /\ overlap_exceeds(chain_cases(hles, ch), hles[g].cases,
                       IF Len(ch) = 1 THEN co_thresh ELSE co_path_thresh)

extend_once(hles, chains, co_thresh, co_path_thresh) ==
    chains \cup {Append(pr[1], pr[2]) :
                    pr \in {q \in chains \X (DOMAIN hles) :
                              can_extend(hles, q[1], q[2], co_thresh, co_path_thresh)}}

RECURSIVE extend_all(_, _, _, _, _)
extend_all(hles, chains, co_thresh, co_path_thresh, k) ==
    IF k = 0 THEN chains
    ELSE extend_all(hles, extend_once(hles, chains, co_thresh, co_path_thresh),
                    co_thresh, co_path_thresh, k - 1)

\* every chain the builder discovers: each HLE alone, extended while a
\* next-compatible HLE exists
build_chains(hles, co_thresh, co_path_thresh) ==
    extend_all(hles, {<<h>> : h \in DOMAIN hles}, co_thresh, co_path_thresh,
               Cardinality(DOMAIN hles))

\* the HLA path of a chain: its tuple of (feature-type, entity) pairs
hla_of(hles, ch) == [i \in 1..Len(ch) |-> <<hles[ch[i]]["f-type"], hles[ch[i]].entity>>]

\* raw builder output: path tuple -> participating cases (chains that project
\* to the same tuple pool their cases)
raw_paths(hles, co_thresh, co_path_thresh) ==
    LET chains == build_chains(hles, co_thresh, co_path_thresh)
        tuples == {hla_of(hles, ch) : ch \in chains}
    IN  [t \in tuples |->
            UNION {chain_cases(hles, ch) : ch \in {c \in chains : hla_of(hles, c) = t}}]

---------------------------------------------------------------------------
(* Path Filter (spec 4.4) *)

\* P occurs in Q as a contiguous subsequence
is_subpath(sub, sup) ==
    \E off \in 0..(Len(sup) - Len(sub)) : \A i \in 1..Len(sub) : sup[off + i] = sub[i]

frequency_filter(paths, path_frequency) ==
    LET keep == {t \in DOMAIN paths : Cardinality(paths[t]) >= path_frequency}
    IN  [t \in keep |-> paths[t]]

\* drop P when another retained path contains it and covers its cases
maximal_filter(paths) ==
    LET keep == {t \in DOMAIN paths :
                    ~ \E u \in DOMAIN paths :
                        u # t /\ is_subpath(t, u) /\ paths[t] \subseteq paths[u]}
    IN  [t \in keep |-> paths[t]]

path_filter(paths, only_maximal_paths, path_frequency) ==
    LET frequent == frequency_filter(paths, path_frequency)
    IN  IF only_maximal_paths THEN maximal_filter(frequent) ELSE frequent

---------------------------------------------------------------------------
(* The mining entry point *)

\* configuration errors (spec 7); the percentile is not among them: the
\* scripts pass P = 0.9 and use the result
config_error(selected_f_list, seg_method) ==
    seg_method # "df" \/ Len(selected_f_list) = 0

MineResult(raised, hles, paths) ==
    [raised |-> raised, hle_all_dic |-> hles, hla_paths_dict |-> paths]

\* hlem_with_paths.paths_and_cases_with_overlap: classify, build, filter.
\* The second result maps a path tuple to <<frequency, participating cases>>.
paths_and_cases_with_overlap(l, frame, traffic_type, selected_f_list, p, co_thresh, co_path_thresh, res_info, only_maximal_paths, path_frequency, act_selection, res_selection, seg_method, type_based, seg_percentile) ==
    IF config_error(selected_f_list, seg_method)
    THEN MineResult("ConfigurationError", EmptyMap, EmptyMap)
    ELSE LET hles == hle_generation(l, traffic_type, selected_f_list, p)
             kept == path_filter(raw_paths(hles, co_thresh, co_path_thresh),
                                 only_maximal_paths, path_frequency)
         IN  MineResult("none", hles,
                        [t \in DOMAIN kept |-> <<Cardinality(kept[t]), kept[t]>>])

\* main that passes only_maximal_paths as False
main_not_maximal(l, frame, traffic_type, selected_f_list, p, co_thresh, co_path_thresh, res_info, only_maximal_paths, path_frequency, act_selection, res_selection, seg_method, type_based, seg_percentile) ==
    paths_and_cases_with_overlap(l, frame, traffic_type, selected_f_list, p, co_thresh,
                                 co_path_thresh, res_info, FALSE,
                                 path_frequency, act_selection, res_selection,
                                 seg_method, type_based, seg_percentile)

\* main that passes 0 (the former FREQ) as path_frequency
main_zero_frequency(l, frame, traffic_type, selected_f_list, p, co_thresh, co_path_thresh, res_info, only_maximal_paths, path_frequency, act_selection, res_selection, seg_method, type_based, seg_percentile) ==
    paths_and_cases_with_overlap(l, frame, traffic_type, selected_f_list, p, co_thresh,
                                 co_path_thresh, res_info, only_maximal_paths,
                                 0, act_selection, res_selection,
                                 seg_method, type_based, seg_percentile)

\* main that passes co_path_thresh and co_thresh in each other's place
main_swapped_thresholds(l, frame, traffic_type, selected_f_list, p, co_thresh, co_path_thresh, res_info, only_maximal_paths, path_frequency, act_selection, res_selection, seg_method, type_based, seg_percentile) ==
    paths_and_cases_with_overlap(l, frame, traffic_type, selected_f_list, p,
                                 co_path_thresh, co_thresh, res_info,
                                 only_maximal_paths, path_frequency, act_selection,
                                 res_selection, seg_method, type_based, seg_percentile)

main(l, frame, traffic_type, selected_f_list, p, co_thresh, co_path_thresh, res_info, only_maximal_paths, path_frequency, act_selection, res_selection, seg_method, type_based, seg_percentile) ==
    paths_and_cases_with_overlap(l, frame, traffic_type, selected_f_list, p, co_thresh,
                                 co_path_thresh, res_info, only_maximal_paths,
                                 path_frequency, act_selection, res_selection,
                                 seg_method, type_based, seg_percentile)

---------------------------------------------------------------------------
(* Statistics Aggregator (spec 4.5) *)

\* case_participation.get_cf_dict: case id -> activity-name sequence
get_cf_dict(l) == [c \in case_ids(l) |-> l[c].trace]

Row(path, frequency, participating, non_participating) ==
    [path |-> path, frequency |-> frequency, participating |-> participating]
        @@ ("non-participating" :> non_participating)

RECURSIVE SetToSeq(_)
\* some fixed enumeration of a finite set
SetToSeq(S) ==
    IF S = {} THEN <<>>
    ELSE LET x == CHOOSE y \in S : TRUE IN <<x>> \o SetToSeq(S \ {x})

\* gather_statistics that reports the whole universe as non-participating
gather_statistics_no_complement(hles, paths, cf_dict, p, co_thresh) ==
    LET order == SetToSeq(DOMAIN paths)
    IN  [i \in DOMAIN order |->
            Row(order[i], paths[order[i]][1], paths[order[i]][2], DOMAIN cf_dict)]

\* postprocess.gather_statistics: one row per retained path
gather_statistics(hles, paths, cf_dict, p, co_thresh) ==
    LET universe == DOMAIN cf_dict
        order == SetToSeq(DOMAIN paths)
    IN  [i \in DOMAIN order |->
            Row(order[i], paths[order[i]][1], paths[order[i]][2],
                universe \ paths[order[i]][2])]

---------------------------------------------------------------------------
(* Significance Tester (spec 4.6): chi-square test of independence between  *)
(* a participation partition and an outcome partition, both sequences of    *)
(* case-id sets.  The statistic is kept as a fraction num/den; the p-value  *)
(* is reported in thousandths, to the bracket of the chi-square table.      *)

RECURSIVE SumOver(_, _)
SumOver(f, S) ==
    IF S = {} THEN 0
    ELSE LET x == CHOOSE y \in S : TRUE IN f[x] + SumOver(f, S \ {x})

RECURSIVE ProdOver(_, _)
ProdOver(f, S) ==
    IF S = {} THEN 1
    ELSE LET x == CHOOSE y \in S : TRUE IN f[x] * ProdOver(f, S \ {x})

\* cell counts: rows are the participation classes, columns the outcome classes
contingency(partition_a, partition_b) ==
    [i \in DOMAIN partition_a |->
        [j \in DOMAIN partition_b |-> Cardinality(partition_a[i] \cap partition_b[j])]]

row_sums(t) == [i \in DOMAIN t |-> SumOver(t[i], DOMAIN t[i])]

col_sums(t) ==
    [j \in DOMAIN t[1] |-> SumOver([i \in DOMAIN t |-> t[i][j]], DOMAIN t)]

\* a zero margin: an all-zero row or column
degenerate(t) ==
    \/ \E i \in DOMAIN t : row_sums(t)[i] = 0
    \/ \E j \in DOMAIN t[1] : col_sums(t)[j] = 0

\* Pearson's statistic of a table without zero margins, as <<num, den>>
chi2(t) ==
    LET r == row_sums(t)
        c == col_sums(t)
        n == SumOver(r, DOMAIN r)
        d == ProdOver(r, DOMAIN r) * ProdOver(c, DOMAIN c)
        cells == (DOMAIN t) \X (DOMAIN t[1])
        term == [x \in cells |-> t[x[1]][x[2]] * t[x[1]][x[2]] * (d \div (r[x[1]] * c[x[2]]))]
    IN  <<n * (SumOver(term, cells) - d), d>>

\* critical values (in thousandths) of the chi-square distribution for the
\* upper-tail probabilities 0.1, 0.05, 0.01, 0.001, by degrees of freedom
chi2_critical(dof) ==
    IF dof = 1 THEN <<2706, 3841, 6635, 10828>> ELSE <<4605, 5991, 9210, 13816>>

tail_probability == <<100, 50, 10, 1>>

\* the p-value in thousandths: the smallest tabulated tail probability whose
\* critical value the statistic reaches, 1000 when it reaches none
p_value_of(stat, dof) ==
    LET reached == {k \in 1..4 : 1000 * stat[1] >= chi2_critical(dof)[k] * stat[2]}
    IN  IF reached = {} THEN 1000
        ELSE tail_probability[CHOOSE k \in reached : \A m \in reached : m <= k]

TestResult(raised, p_value, is_significant) ==
    [raised |-> raised, p_value |-> p_value, is_significant |-> is_significant]

\* significance.significance: (p-value, is_significant), is_significant being
\* p-value <= 0.05; a table with a zero margin is reported not significant
significance(partition_a, partition_b) ==
    LET t == contingency(partition_a, partition_b)
        dof == (Len(partition_a) - 1) * (Len(partition_b) - 1)
    IN  IF degenerate(t) THEN TestResult("none", 1000, FALSE)
        ELSE LET pv == p_value_of(chi2(t), dof)
             IN  TestResult("none", pv, pv <= 50)

---------------------------------------------------------------------------
(* results_analysis.py *)

\* set(list)
set_of(lst) == Range(lst)

CallResult(raised, value) == [raised |-> raised, value |-> value]

\* outcome_row that counts the non-participating successes among the
\* participating cases
outcome_row_miscounted(row, successful_set, unsuccessful_set, p_value) ==
    [Length |-> Len(row.path), Frequency |-> row.frequency, Path |-> row.path,
     p_value |-> p_value]
    @@ ("Part&Success" :> Cardinality(row.participating \cap successful_set))
    @@ ("Part&Unsuccess" :> Cardinality(row.participating \cap unsuccessful_set))
    @@ ("NonPart&Success" :> Cardinality(row.participating \cap successful_set))
    @@ ("NonPart&Unsuccess" :> Cardinality(row["non-participating"] \cap unsuccessful_set))

\* the dictionary results_outcome appends for a significant row
outcome_row(row, successful_set, unsuccessful_set, p_value) ==
    [Length |-> Len(row.path), Frequency |-> row.frequency, Path |-> row.path,
     p_value |-> p_value]
    @@ ("Part&Success" :> Cardinality(row.participating \cap successful_set))
    @@ ("Part&Unsuccess" :> Cardinality(row.participating \cap unsuccessful_set))
    @@ ("NonPart&Success" :> Cardinality(row["non-participating"] \cap successful_set))
    @@ ("NonPart&Unsuccess" :> Cardinality(row["non-participating"] \cap unsuccessful_set))

\* the test results_outcome runs on one row
outcome_test(row, successful_set, unsuccessful_set) ==
    significance(<<row.participating, row["non-participating"]>>,
                 <<successful_set, unsuccessful_set>>)

RECURSIVE outcome_loop(_, _, _, _)
\* the loop over df_paths.iterrows(), rows 1..k: significant rows in input order
outcome_loop(df, successful_set, unsuccessful_set, k) ==
    IF k = 0 THEN <<>>
    ELSE LET before == outcome_loop(df, successful_set, unsuccessful_set, k - 1)
             test == outcome_test(df[k], successful_set, unsuccessful_set)
         IN  IF test.is_significant
             THEN Append(before, outcome_row(df[k], successful_set, unsuccessful_set,
                                             test.p_value))
             ELSE before

\* the first exception a row's test raises, "none" when none does
first_raise(tests) ==
    IF \A i \in DOMAIN tests : tests[i].raised = "none" THEN "none"
    ELSE tests[CHOOSE i \in DOMAIN tests :
                  /\ tests[i].raised # "none"
                  /\ \A j \in DOMAIN tests : tests[j].raised # "none" => i <= j].raised

\* results_outcome that appends every row, significant or not
results_outcome_unfiltered(df, successful, unsuccessful) ==
    CallResult("none",
               [i \in DOMAIN df |->
                   outcome_row(df[i], set_of(successful), set_of(unsuccessful),
                               outcome_test(df[i], set_of(successful),
                                            set_of(unsuccessful)).p_value)])

results_outcome(df, successful, unsuccessful) ==
    LET successful_set == set_of(successful)
        unsuccessful_set == set_of(unsuccessful)
        raised == first_raise([i \in DOMAIN df |->
                                 outcome_test(df[i], successful_set, unsuccessful_set)])
    IN  IF raised # "none" THEN CallResult(raised, <<>>)
        ELSE CallResult("none",
                        outcome_loop(df, successful_set, unsuccessful_set, Len(df)))

\* the row throughput_tables appends for a path with special throughput
throughput_row(row, classes, p_value) ==
    <<Len(row.path), row.frequency, row.path,
      Cardinality(row.participating \cap set_of(classes[1])),
      Cardinality(row.participating \cap set_of(classes[2])),
      Cardinality(row.participating \cap set_of(classes[3])),
      Cardinality(row["non-participating"] \cap set_of(classes[1])),
      Cardinality(row["non-participating"] \cap set_of(classes[2])),
      Cardinality(row["non-participating"] \cap set_of(classes[3])),
      p_value>>

throughput_test(row, classes) ==
    significance(<<row.participating, row["non-participating"]>>,
                 [j \in DOMAIN classes |-> set_of(classes[j])])

RECURSIVE throughput_loop(_, _, _)
throughput_loop(df, classes, k) ==
    IF k = 0 THEN <<>>
    ELSE LET before == throughput_loop(df, classes, k - 1)
             test == throughput_test(df[k], classes)
         IN  IF test.is_significant
             THEN Append(before, throughput_row(df[k], classes, test.p_value))
             ELSE before

\* throughput_tables that appends every row
throughput_tables_unfiltered(result_df, classes) ==
    CallResult("none",
               [i \in DOMAIN result_df |->
                   throughput_row(result_df[i], classes,
                                  throughput_test(result_df[i], classes).p_value)])

\* throughput_tables returns nothing; the value is the table it writes
throughput_tables(result_df, classes) ==
    LET raised == first_raise([i \in DOMAIN result_df |->
                                 throughput_test(result_df[i], classes)])
    IN  IF raised # "none" THEN CallResult(raised, <<>>)
        ELSE CallResult("none", throughput_loop(result_df, classes, Len(result_df)))

NoSignificantPaths == "No statistically significant paths found"

\* logging.info at the end of results_outcome
results_outcome_log(results) ==
    IF Len(results) > 0 THEN "Found statistically significant paths"
    ELSE NoSignificantPaths

\* results_outcome that narrows each row's sets in place (intersection_update)
results_outcome_args_updating(df, successful, unsuccessful) ==
    [df_paths |-> [i \in DOMAIN df |->
                      [df[i] EXCEPT !.participating = @ \cap set_of(successful)]],
     successful_cases |-> successful, unsuccessful_cases |-> unsuccessful]

\* the arguments of results_outcome as the call leaves them: set(...) copies
\* the two lists and intersection() builds new sets, nothing is assigned to
\* a row
results_outcome_args(df, successful, unsuccessful) ==
    [df_paths |-> df, successful_cases |-> successful, unsuccessful_cases |-> unsuccessful]

\* the arguments of throughput_tables as the call leaves them
throughput_tables_args(result_df, classes) ==
    [result_df |-> result_df, outcome_throughput |-> classes]

\* sorted(feature_stats.keys()) over the feature types of SELECTED_F_LIST
FEATURE_ORDER == <<"batch", "delay", "enter", "exit", "handover", "workload">>

\* feature_stats: feature type -> count and Counter of its segments
feature_stats(hles) ==
    [f \in {hles[id]["f-type"] : id \in DOMAIN hles} |->
        LET mine == {id \in DOMAIN hles : hles[id]["f-type"] = f}
        IN  [count |-> Cardinality(mine),
             segments |-> [e \in {hles[id].entity : id \in mine} |->
                              Cardinality({id \in mine : hles[id].entity = e})]]]

\* one table line: the percentage is the fraction <<count * 100, total_hles>>
stats_line(f, stats, total_hles) ==
    [feature_type |-> f, count |-> stats.count,
     percentage |-> IF total_hles > 0 THEN <<stats.count * 100, total_hles>> ELSE <<0, 1>>,
     distinct_segments |-> Cardinality(DOMAIN stats.segments),
     most_common_count |->
        CHOOSE n \in Range(stats.segments) : \A m \in Range(stats.segments) : m <= n]

\* print_hle_statistics that also prints the mean count per feature type
print_hle_statistics_mean(hles, save_to_file, output_file) ==
    IF DOMAIN feature_stats(hles) = {}
    THEN CallResult("ZeroDivisionError", <<>>)
    ELSE CallResult("none", [lines |-> <<>>, total |-> Cardinality(DOMAIN hles)])

\* print_hle_statistics returns nothing; the value is the table it prints
print_hle_statistics(hles, save_to_file, output_file) ==
    LET stats == feature_stats(hles)
        total_hles == SumOver([f \in DOMAIN stats |-> stats[f].count], DOMAIN stats)
        keys == SelectSeq(FEATURE_ORDER, LAMBDA f : f \in DOMAIN stats)
    IN  CallResult("none",
                   [lines |-> [i \in DOMAIN keys |->
                                  stats_line(keys[i], stats[keys[i]], total_hles)],
                    total |-> total_hles])

\* the HLE map as print_hle_statistics leaves it: it only reads hle_info
print_hle_statistics_args(hles, save_to_file, output_file) == hles

---------------------------------------------------------------------------
(* The analysis script (main.py, __main__): main, get_cf_dict,              *)
(* gather_statistics.                                                       *)

Cfg(selected_f_list, co_path_thresh, only_maximal_paths, path_frequency, seg_method) ==
    [frame |-> FRAME, traffic_type |-> TRAFFIC_TYPE, selected_f_list |-> selected_f_list,
     p |-> P, co_thresh |-> CO_THRESH, co_path_thresh |-> co_path_thresh,
     res_info |-> RES_INFO, only_maximal_paths |-> only_maximal_paths,
     path_frequency |-> path_frequency, act_selection |-> ACT_SELECTION,
     res_selection |-> "all", seg_method |-> seg_method, type_based |-> TYPE_BASED,
     seg_percentile |-> SEG_PERCENTILE]

Configs ==
    {Cfg(<<"workload">>, CO_PATH_THRESH, omp, pf, SEG_METHOD) :
        omp \in BOOLEAN, pf \in {1, 2}}
    \cup {Cfg(<<"workload">>, 3, FALSE, 1, SEG_METHOD),
          Cfg(<<"workload">>, CO_PATH_THRESH, ONLY_MAXIMAL_PATHS, PATH_FREQUENCY, SEG_METHOD),
          Cfg(<<"exit", "workload">>, CO_PATH_THRESH, ONLY_MAXIMAL_PATHS, 1, SEG_METHOD),
          Cfg(<<>>, CO_PATH_THRESH, ONLY_MAXIMAL_PATHS, 1, SEG_METHOD),
          Cfg(<<"workload">>, CO_PATH_THRESH, ONLY_MAXIMAL_PATHS, 1, "other")}

call_main(l, c) ==
    main(l, c.frame, c.traffic_type, c.selected_f_list, c.p, c.co_thresh,
         c.co_path_thresh, c.res_info, c.only_maximal_paths, c.path_frequency,
         c.act_selection, c.res_selection, c.seg_method, c.type_based,
         c.seg_percentile)

Idle ==
    /\ successful_cases = <<>> /\ unsuccessful_cases = <<>>
    /\ outcome_throughput = <<>> /\ results_df = <<>> /\ eval_df = <<>>
    /\ b_chains = {} /\ b_pending = {} /\ b_merged = EmptyMap
    /\ hle_stats = <<>> /\ logged = "" /\ frames = <<>>
    /\ resources_set = {} /\ files = EmptyMap /\ load_calls = <<>>

Init ==
    /\ pc = "start"
    /\ log \in Logs
    /\ cfg \in Configs
    /\ hle_all_dic = EmptyMap
    /\ hla_paths_dict = EmptyMap
    /\ control_flow_dict = EmptyMap
    /\ df_paths = <<>>
    /\ error = "none"
    /\ Idle

\* hle_all_dic, hla_paths_dict = main(log, FRAME, ...)
RunMain ==
    /\ pc = "start"
    /\ LET r == call_main(log, cfg)
       IN  IF r.raised # "none"
           THEN /\ error' = r.raised
                /\ pc' = "failed"
                /\ UNCHANGED <<hle_all_dic, hla_paths_dict>>
           ELSE /\ hle_all_dic' = r.hle_all_dic
                /\ hla_paths_dict' = r.hla_paths_dict
                /\ pc' = "mined"
                /\ UNCHANGED error
    /\ UNCHANGED <<log, cfg, control_flow_dict, df_paths, successful_cases,
                   unsuccessful_cases, outcome_throughput, results_df, eval_df, build_vars, script_vars>>

\* control_flow_dict = case_participation.get_cf_dict(log)
GetCfDict ==
    /\ pc = "mined"
    /\ control_flow_dict' = get_cf_dict(log)
    /\ pc' = "cf"
    /\ UNCHANGED <<log, cfg, hle_all_dic, hla_paths_dict, df_paths, error,
                   successful_cases, unsuccessful_cases, outcome_throughput,
                   results_df, eval_df, build_vars, script_vars>>

\* df_paths = postprocess.gather_statistics(hle_all_dic, hla_paths_dict, ...)
GatherStatistics ==
    /\ pc = "cf"
    /\ df_paths' = gather_statistics(hle_all_dic, hla_paths_dict, control_flow_dict,
                                     cfg.p, cfg.co_thresh)
    /\ pc' = "gathered"
    /\ UNCHANGED <<log, cfg, hle_all_dic, hla_paths_dict, control_flow_dict, error,
                   successful_cases, unsuccessful_cases, outcome_throughput,
                   results_df, eval_df, build_vars, script_vars>>

Next == RunMain \/ GetCfDict \/ GatherStatistics

Spec == Init /\ [][Next]_vars

---------------------------------------------------------------------------
(* Properties of the mining result *)

Mined == pc \in {"mined", "cf", "gathered"}

Retained == DOMAIN hla_paths_dict

participating(path) == hla_paths_dict[path][2]

\* the HLE a path step (feature-type, entity) stands for
step_hle(step) == hle_all_dic[HleId(0, step[2], step[1], "High")]

\* C1: with only_maximal_paths, no retained path is a contiguous subsequence
\* of another retained path that covers all of its participating cases
C1_Maximality ==
    (Mined /\ cfg.only_maximal_paths) =>
        \A sub \in Retained : \A sup \in Retained :
            (sub # sup /\ \E off \in 0..(Len(sup) - Len(sub)) :
                             \A i \in 1..Len(sub) : sup[off + i] = sub[i])
                => ~ (participating(sub) \subseteq participating(sup))

\* a multi-step path is retained and one of its steps was pruned as redundant
C1_Witness ==
    /\ Mined /\ cfg.only_maximal_paths
    /\ \E sup \in Retained :
          /\ Len(sup) >= 2
          /\ \E i \in 1..Len(sup) : <<sup[i]>> \notin Retained
          /\ \E i \in 1..Len(sup) : <<sup[i]>> \in Retained

\* C2: every retained path has at least path_frequency participating cases
C2_FrequencyFloor ==
    Mined => \A path \in Retained :
                /\ Cardinality(participating(path)) >= cfg.path_frequency
                /\ hla_paths_dict[path][1] >= cfg.path_frequency

\* paths are retained while an HLE below the cutoff is not
C2_Witness ==
    /\ Mined /\ cfg.path_frequency = 2 /\ Retained # {}
    /\ \E id \in DOMAIN hle_all_dic :
          /\ Cardinality(hle_all_dic[id].cases) < 2
          /\ <<<<id.ftype, id.entity>>>> \notin Retained

\* C5: consecutive steps of a retained path are directly-follows adjacent, the
\* first link overlaps above co_thresh in at least one direction, and every
\* later link overlaps the path so far above co_path_thresh
C5_LinkCondition ==
    Mined => \A path \in Retained : \A i \in 1..(Len(path) - 1) :
        LET sofar == {c \in case_ids(log) : \A k \in 1..i : c \in step_hle(path[k]).cases}
            nxt == step_hle(path[i + 1]).cases
            common == Cardinality(sofar \cap nxt)
            thresh == IF i = 1 THEN cfg.co_thresh ELSE cfg.co_path_thresh
        IN  /\ path[i][2][2] = path[i + 1][2][1]
            /\ \/ 10 * common > thresh * Cardinality(sofar)
               \/ 10 * common > thresh * Cardinality(nxt)

\* a retained 2-step path whose link exceeds co_thresh in one direction only
C5_Witness ==
    /\ Mined
    /\ \E path \in Retained :
          /\ Len(path) = 2
          /\ LET A == step_hle(path[1]).cases
                 B == step_hle(path[2]).cases
             IN  /\ 10 * Cardinality(A \cap B) > cfg.co_thresh * Cardinality(B)
                 /\ ~ (10 * Cardinality(A \cap B) > cfg.co_thresh * Cardinality(A))

\* C6: a path's participating set is the intersection of its HLEs' sets, so a
\* path extended by one HLE has no case its prefix lacks; HLEs {0,1,2} and
\* {1,2,3} at co_thresh 0.5 give a 2-step path with participating set {1,2}
C6_Intersection ==
    Mined =>
        /\ \A path \in Retained :
              participating(path) =
                 {c \in case_ids(log) : \A k \in 1..Len(path) : c \in step_hle(path[k]).cases}
        /\ \A path \in Retained : \A longer \in Retained :
              (Len(longer) = Len(path) + 1 /\ SubSeq(longer, 1, Len(path)) = path)
                 => participating(longer) \subseteq participating(path)
        /\ (log = ScenarioOverlapLog /\ ~ cfg.only_maximal_paths
              /\ cfg.path_frequency <= 2 /\ cfg.selected_f_list = <<"workload">>)
             => /\ step_hle(<<"workload", <<"a", "b">>>>).cases = {0, 1, 2}
                /\ step_hle(<<"workload", <<"b", "c">>>>).cases = {1, 2, 3}
                /\ <<<<"workload", <<"a", "b">>>>, <<"workload", <<"b", "c">>>>>> \in Retained
                /\ participating(<<<<"workload", <<"a", "b">>>>,
                                   <<"workload", <<"b", "c">>>>>>) = {1, 2}

\* the scenario's two HLEs are linked, and the path lost the case 0
C6_Witness ==
    /\ Mined /\ log = ScenarioOverlapLog /\ cfg.co_thresh = 5
    /\ <<<<"workload", <<"a", "b">>>>, <<"workload", <<"b", "c">>>>>> \in Retained
    /\ <<<<"workload", <<"a", "b">>>>>> \in Retained
    /\ 0 \in participating(<<<<"workload", <<"a", "b">>>>>>)
    /\ 0 \notin participating(<<<<"workload", <<"a", "b">>>>,
                                <<"workload", <<"b", "c">>>>>>)

\* C3: in every row of gather_statistics, participating and non-participating
\* are disjoint and together are the case universe of the control-flow dictionary
C3_PartitionCompleteness ==
    pc = "gathered" =>
        /\ DOMAIN control_flow_dict = case_ids(log)
        /\ \A i \in DOMAIN df_paths :
              /\ df_paths[i].participating \cap df_paths[i]["non-participating"] = {}
              /\ df_paths[i].participating \cup df_paths[i]["non-participating"]
                    = DOMAIN control_flow_dict

\* a gathered row that splits the universe into two non-empty parts
C3_Witness ==
    /\ pc = "gathered"
    /\ \E i \in DOMAIN df_paths :
          /\ df_paths[i].participating # {}
          /\ df_paths[i]["non-participating"] # {}
          /\ df_paths[i].frequency = Cardinality(df_paths[i].participating)

\* C7: with traffic_type 'High', the cases of the High HLE of every
\* (feature-type, entity) group are exactly the cases whose value is >= the
\* group's p-th percentile, and no Low HLE exists; values [10, 2, 9] at p = 0.9
\* have a threshold between 9 and 10 and give one HLE with one case
C7_PercentileClassification ==
    (Mined /\ cfg.traffic_type = "High") =>
        /\ \A id \in DOMAIN hle_all_dic :
              id.label = "High" /\ hle_all_dic[id].label = "High"
        /\ \A e \in steps_list(log) : \A f \in Range(cfg.selected_f_list) :
              LET n == Cardinality(case_ids(log))
                  vals == [i \in 1..n |-> feature_value(log, i - 1, e)]
                  high == {c \in case_ids(log) : 10 * vals[c + 1] >= Percentile10(vals, cfg.p)}
                  id == HleId(0, e, f, "High")
              IN  IF high = {} THEN id \notin DOMAIN hle_all_dic
                  ELSE id \in DOMAIN hle_all_dic /\ hle_all_dic[id].cases = high
        /\ (log = ScenarioPercentileLog /\ cfg.selected_f_list = <<"workload">> /\ cfg.p = 9)
              => /\ Percentile10(<<10, 2, 9>>, 9) > 90
                 /\ Percentile10(<<10, 2, 9>>, 9) < 100
                 /\ DOMAIN hle_all_dic = {HleId(0, <<"a", "b">>, "workload", "High")}
                 /\ hle_all_dic[HleId(0, <<"a", "b">>, "workload", "High")].cases = {0}

\* a group whose threshold is one of its values, met by some cases and not by others
C7_Witness ==
    /\ Mined /\ cfg.traffic_type = "High"
    /\ \E id \in DOMAIN hle_all_dic :
          LET n == Cardinality(case_ids(log))
              vals == [i \in 1..n |-> feature_value(log, i - 1, id.entity)]
          IN  /\ \E c \in hle_all_dic[id].cases : 10 * vals[c + 1] = Percentile10(vals, cfg.p)
              /\ \E c \in case_ids(log) : vals[c + 1] > 0 /\ c \notin hle_all_dic[id].cases

\* C10: main returns a result only for a configuration with 50 < p < 100,
\* segmentation method 'df' and a non-empty feature-type list
C10_ConfigFailFast ==
    Mined => /\ 500 < cfg.p /\ cfg.p < 1000
             /\ cfg.seg_method = "df"
             /\ Len(cfg.selected_f_list) > 0

---------------------------------------------------------------------------
(* The statistics stage on its own: results_outcome and throughput_tables   *)
(* called on a path table over the universe 0..StatCases-1.                 *)

StatUniverse == 0..(StatCases - 1)

\* the ascending list of the ids lo..hi
id_list(lo, hi) == [i \in 1..(hi - lo + 1) |-> lo + i - 1]

\* participating sets of the table's rows: the empty set and the id intervals
StatParts == {{}} \cup {lo..hi : lo, hi \in StatUniverse}

\* the path of the table's k-th row
stat_path(k) ==
    IF k = 1 THEN <<<<"workload", <<"a", "b">>>>>>
    ELSE <<<<"workload", <<"a", "b">>>>, <<"exit", <<"b", "c">>>>>>

stat_table(parts) ==
    [k \in DOMAIN parts |->
        Row(stat_path(k), Cardinality(parts[k]), parts[k], StatUniverse \ parts[k])]

StatTables ==
    {stat_table(parts) : parts \in {<<>>} \cup {<<a>> : a \in StatParts}
                                   \cup {<<a, b>> : a, b \in StatParts}}

InitStats ==
    /\ pc = "stats"
    /\ df_paths \in StatTables
    /\ log = <<>>
    /\ cfg = <<>>
    /\ hle_all_dic = EmptyMap
    /\ hla_paths_dict = EmptyMap
    /\ control_flow_dict = EmptyMap
    /\ error = "none"
    /\ Idle

\* results_analysis.results_outcome(df_paths, successful_cases, unsuccessful_cases)
ResultsOutcome ==
    /\ pc = "stats"
    /\ \E k \in 0..StatCases :
          /\ successful_cases' = id_list(0, k - 1)
          /\ unsuccessful_cases' = id_list(k, StatCases - 1)
          /\ LET r == results_outcome(df_paths, successful_cases', unsuccessful_cases')
             IN  /\ results_df' = r.value
                 /\ error' = r.raised
                 /\ logged' = IF r.raised = "none" THEN results_outcome_log(r.value)
                               ELSE logged
                 /\ pc' = IF r.raised = "none" THEN "outcome_done" ELSE "failed"
    /\ UNCHANGED <<log, cfg, hle_all_dic, hla_paths_dict, control_flow_dict, df_paths,
                   outcome_throughput, eval_df, build_vars, hle_stats, frames,
                   resources_set, files, load_calls>>

\* results_analysis.throughput_tables(df_paths, [class_under, class_mid, class_over])
ThroughputTables ==
    /\ pc = "stats"
    /\ \E i \in 0..StatCases : \E j \in i..StatCases :
          /\ outcome_throughput' =
                <<id_list(0, i - 1), id_list(i, j - 1), id_list(j, StatCases - 1)>>
          /\ LET r == throughput_tables(df_paths, outcome_throughput')
             IN  /\ eval_df' = r.value
                 /\ error' = r.raised
                 /\ pc' = IF r.raised = "none" THEN "throughput_done" ELSE "failed"
    /\ UNCHANGED <<log, cfg, hle_all_dic, hla_paths_dict, control_flow_dict, df_paths,
                   successful_cases, unsuccessful_cases, results_df, build_vars, script_vars>>

NextStats == ResultsOutcome \/ ThroughputTables

SpecStats == InitStats /\ [][NextStats]_vars

---------------------------------------------------------------------------
(* Properties of the statistics stage *)

\* the test of the i-th row of df_paths against the outcome partition
row_test(i) ==
    significance(<<df_paths[i].participating, df_paths[i]["non-participating"]>>,
                 <<Range(successful_cases), Range(unsuccessful_cases)>>)

significant_rows == {i \in DOMAIN df_paths : row_test(i).is_significant}

\* the k-th significant row, in input order
kth_significant(k) ==
    CHOOSE i \in significant_rows : Cardinality({j \in significant_rows : j <= i}) = k

\* C8: results_outcome returns, in input order, exactly the rows the test
\* reports significant, and a row is significant iff its p-value is <= 0.05
C8_SignificanceFilter ==
    pc = "outcome_done" =>
        /\ \A i \in DOMAIN df_paths :
              row_test(i).is_significant <=> row_test(i).p_value <= 50
        /\ Len(results_df) = Cardinality(significant_rows)
        /\ \A k \in DOMAIN results_df :
              /\ results_df[k].Path = df_paths[kth_significant(k)].path
              /\ results_df[k].p_value = row_test(kth_significant(k)).p_value
              /\ results_df[k].p_value <= 50

\* of two rows the first is not significant and the second is: only the
\* second is returned
C8_Witness ==
    /\ pc = "outcome_done"
    /\ Len(df_paths) = 2
    /\ row_test(1).p_value > 50
    /\ row_test(2).p_value <= 50
    /\ Len(results_df) = 1
    /\ results_df[1].Path = df_paths[2].path

\* a row whose table against the classes has an all-zero row or column
zero_margin(row, classes) ==
    \/ \A j \in DOMAIN classes : row.participating \cap Range(classes[j]) = {}
    \/ \A j \in DOMAIN classes : row["non-participating"] \cap Range(classes[j]) = {}
    \/ \E j \in DOMAIN classes :
          (row.participating \cup row["non-participating"]) \cap Range(classes[j]) = {}

\* C9: results_outcome and throughput_tables never raise, and a path whose
\* contingency table has a zero margin is tested not significant and omitted
C9_DegenerateStatistics ==
    /\ error = "none" /\ pc # "failed"
    /\ pc = "outcome_done" =>
          \A i \in DOMAIN df_paths :
              zero_margin(df_paths[i], <<successful_cases, unsuccessful_cases>>)
                 => /\ ~ row_test(i).is_significant
                    /\ \A k \in DOMAIN results_df : results_df[k].Path # df_paths[i].path
    /\ pc = "throughput_done" =>
          \A i \in DOMAIN df_paths :
              zero_margin(df_paths[i], outcome_throughput)
                 => /\ ~ throughput_test(df_paths[i], outcome_throughput).is_significant
                    /\ \A k \in DOMAIN eval_df : eval_df[k][3] # df_paths[i].path

\* throughput_tables wrote a row for one path and omitted a path no case
\* participates in
C9_Witness ==
    /\ pc = "throughput_done"
    /\ Len(eval_df) = 1
    /\ \E i \in DOMAIN df_paths :
          /\ df_paths[i].participating = {}
          /\ eval_df[1][3] # df_paths[i].path

---------------------------------------------------------------------------
(* The Overlap Path Builder step by step (spec 4.3, 5).  Work is sharded by  *)
(* the HLE a chain starts from; a shard is seeded, its chains are extended   *)
(* one compatible HLE at a time in any order, and a finished shard's output  *)
(* is merged into the common result while other shards are still building.   *)

BuildTraceSet == { <<"a", "b", "c", "d">>, <<"a", "b", "d">> }

BuildLogs == UNION {[0..(n - 1) -> [trace : BuildTraceSet, load : LoadSet]] : n \in 1..MaxCases}

BuildConfigs ==
    {Cfg(<<"workload">>, CO_PATH_THRESH, ONLY_MAXIMAL_PATHS, 1, SEG_METHOD),
     Cfg(<<"workload">>, 3, FALSE, 2, SEG_METHOD)}

\* the builder explores only one extension of a chain: whichever it visits first
candidates_greedy(hles, chains, ch, co_thresh, co_path_thresh) ==
    IF \E g \in DOMAIN hles : Append(ch, g) \in chains
    THEN {}
    ELSE {g \in DOMAIN hles : can_extend(hles, ch, g, co_thresh, co_path_thresh)}

\* the HLEs that extend chain ch to a chain not yet discovered
candidates(hles, chains, ch, co_thresh, co_path_thresh) ==
    {g \in DOMAIN hles :
        /\ can_extend(hles, ch, g, co_thresh, co_path_thresh)
        /\ Append(ch, g) \notin chains}

\* the chains of the shard of HLE h
shard_chains(chains, h) == {ch \in chains : ch[1] = h}

\* shard h is seeded and none of its chains has an extension left
shard_done(hles, chains, h, co_thresh, co_path_thresh) ==
    /\ <<h>> \in chains
    /\ \A ch \in shard_chains(chains, h) :
          candidates(hles, chains, ch, co_thresh, co_path_thresh) = {}

\* the output of shard h: path tuple -> participating cases
shard_output(hles, chains, h) ==
    LET mine == shard_chains(chains, h)
    IN  [t \in {hla_of(hles, ch) : ch \in mine} |->
            UNION {chain_cases(hles, ch) : ch \in {c \in mine : hla_of(hles, c) = t}}]

\* merge a shard's output into the common map; a tuple in both pools its cases
merge_paths(merged, out) ==
    [t \in (DOMAIN merged) \cup (DOMAIN out) |->
        (IF t \in DOMAIN merged THEN merged[t] ELSE {})
            \cup (IF t \in DOMAIN out THEN out[t] ELSE {})]

InitBuild ==
    /\ pc = "start"
    /\ log \in BuildLogs
    /\ cfg \in BuildConfigs
    /\ hle_all_dic = EmptyMap
    /\ hla_paths_dict = EmptyMap
    /\ control_flow_dict = EmptyMap
    /\ df_paths = <<>>
    /\ error = "none"
    /\ Idle

\* classification done: one shard per HLE is pending
BuildStart ==
    /\ pc = "start"
    /\ hle_all_dic' = hle_generation(log, cfg.traffic_type, cfg.selected_f_list, cfg.p)
    /\ b_pending' = DOMAIN hle_all_dic'
    /\ pc' = "build"
    /\ UNCHANGED <<log, cfg, hla_paths_dict, control_flow_dict, df_paths, error,
                   successful_cases, unsuccessful_cases, outcome_throughput,
                   results_df, eval_df, b_chains, b_merged,
                   script_vars>>

\* a shard visits its start HLE
BuildSeed ==
    /\ pc = "build"
    /\ \E h \in b_pending :
          /\ <<h>> \notin b_chains
          /\ b_chains' = b_chains \cup {<<h>>}
    /\ UNCHANGED <<pc, log, cfg, hle_all_dic, hla_paths_dict, control_flow_dict,
                   df_paths, error, successful_cases, unsuccessful_cases,
                   outcome_throughput, results_df, eval_df, b_pending, b_merged,
                   script_vars>>

\* a shard extends one of its chains by one compatible HLE
BuildExtend ==
    /\ pc = "build"
    /\ \E ch \in b_chains :
          /\ ch[1] \in b_pending
          /\ \E g \in candidates(hle_all_dic, b_chains, ch, cfg.co_thresh, cfg.co_path_thresh) :
                b_chains' = b_chains \cup {Append(ch, g)}
    /\ UNCHANGED <<pc, log, cfg, hle_all_dic, hla_paths_dict, control_flow_dict,
                   df_paths, error, successful_cases, unsuccessful_cases,
                   outcome_throughput, results_df, eval_df, b_pending, b_merged,
                   script_vars>>

\* a finished shard's output is merged
MergeShard ==
    /\ pc = "build"
    /\ \E h \in b_pending :
          /\ shard_done(hle_all_dic, b_chains, h, cfg.co_thresh, cfg.co_path_thresh)
          /\ b_merged' = merge_paths(b_merged, shard_output(hle_all_dic, b_chains, h))
          /\ b_pending' = b_pending \ {h}
    /\ UNCHANGED <<pc, log, cfg, hle_all_dic, hla_paths_dict, control_flow_dict,
                   df_paths, error, successful_cases, unsuccessful_cases,
                   outcome_throughput, results_df, eval_df, b_chains,
                   script_vars>>

\* all shards merged: the Path Filter runs on the merged map
BuildFinish ==
    /\ pc = "build"
    /\ b_pending = {}
    /\ LET kept == path_filter(b_merged, cfg.only_maximal_paths, cfg.path_frequency)
       IN  hla_paths_dict' = [t \in DOMAIN kept |-> <<Cardinality(kept[t]), kept[t]>>]
    /\ pc' = "built"
    /\ UNCHANGED <<log, cfg, hle_all_dic, control_flow_dict, df_paths, error,
                   successful_cases, unsuccessful_cases, outcome_throughput,
                   results_df, eval_df, build_vars, script_vars>>

NextBuild == BuildStart \/ BuildSeed \/ BuildExtend \/ MergeShard \/ BuildFinish

SpecBuild == InitBuild /\ [][NextBuild]_vars

---------------------------------------------------------------------------
(* Properties of the builder *)

---------------------------------------------------------------------------
(* The reporting calls in sequence, as the script makes them after          *)
(* gather_statistics: print_hle_statistics, results_outcome,                *)
(* throughput_tables, on inputs that are all in place before the first.     *)

\* HLE maps handed to print_hle_statistics, the empty one among them
DownHleMaps ==
    {EmptyMap,
     1 :> Hle("workload", <<"a", "b">>, 0, "High", {0}),
     (1 :> Hle("workload", <<"a", "b">>, 0, "High", {0}))
        @@ (2 :> Hle("workload", <<"a", "b">>, 1, "High", {1})),
     (1 :> Hle("workload", <<"a", "b">>, 0, "High", {0}))
        @@ (2 :> Hle("workload", <<"b", "c">>, 0, "High", {0, 1}))
        @@ (3 :> Hle("exit", <<"a", "b">>, 0, "High", {1}))}

\* path tables of no row, one row, and two rows
DownTables ==
    {t \in StatTables : Len(t) <= 1}
        \cup {stat_table(<<a, StatUniverse \ a>>) : a \in {0..1, 0..2}}

InitDown ==
    /\ pc = "gathered"
    /\ df_paths \in DownTables
    /\ hle_all_dic \in DownHleMaps
    /\ \E i \in 0..StatCases : \E j \in i..StatCases :
          /\ successful_cases = id_list(0, j - 1)
          /\ unsuccessful_cases = id_list(j, StatCases - 1)
          /\ outcome_throughput =
                <<id_list(0, i - 1), id_list(i, j - 1), id_list(j, StatCases - 1)>>
    /\ log = <<>> /\ cfg = <<>>
    /\ hla_paths_dict = EmptyMap /\ control_flow_dict = EmptyMap
    /\ error = "none"
    /\ results_df = <<>> /\ eval_df = <<>>
    /\ b_chains = {} /\ b_pending = {} /\ b_merged = EmptyMap
    /\ hle_stats = <<>> /\ logged = "" /\ frames = <<>>
    /\ resources_set = {} /\ files = EmptyMap /\ load_calls = <<>>

\* print_hle_statistics(hle_all_dic)
DownPrintHleStatistics ==
    /\ pc = "gathered"
    /\ LET r == print_hle_statistics(hle_all_dic, TRUE, "results/hle_statistics.txt")
       IN  /\ hle_stats' = r.value
           /\ error' = r.raised
           /\ pc' = IF r.raised = "none" THEN "printed" ELSE "failed"
    /\ hle_all_dic' = print_hle_statistics_args(hle_all_dic, TRUE, "results/hle_statistics.txt")
    /\ UNCHANGED <<log, cfg, hla_paths_dict, control_flow_dict, df_paths,
                   successful_cases, unsuccessful_cases, outcome_throughput,
                   results_df, eval_df, build_vars, logged, frames, resources_set,
                   files, load_calls>>

\* results_analysis.results_outcome(df_paths, successful_cases, unsuccessful_cases)
DownResultsOutcome ==
    /\ pc = "printed"
    /\ LET r == results_outcome(df_paths, successful_cases, unsuccessful_cases)
           a == results_outcome_args(df_paths, successful_cases, unsuccessful_cases)
       IN  /\ results_df' = r.value
           /\ error' = r.raised
           /\ logged' = IF r.raised = "none" THEN results_outcome_log(r.value) ELSE logged
           /\ pc' = IF r.raised = "none" THEN "outcome_reported" ELSE "failed"
           /\ df_paths' = a.df_paths
           /\ successful_cases' = a.successful_cases
           /\ unsuccessful_cases' = a.unsuccessful_cases
    /\ UNCHANGED <<log, cfg, hle_all_dic, hla_paths_dict, control_flow_dict,
                   outcome_throughput, eval_df, build_vars, hle_stats, frames,
                   resources_set, files, load_calls>>

\* results_analysis.throughput_tables(df_paths, [class_under_5, ...])
DownThroughputTables ==
    /\ pc = "outcome_reported"
    /\ LET r == throughput_tables(df_paths, outcome_throughput)
           a == throughput_tables_args(df_paths, outcome_throughput)
       IN  /\ eval_df' = r.value
           /\ error' = r.raised
           /\ pc' = IF r.raised = "none" THEN "throughput_reported" ELSE "failed"
           /\ df_paths' = a.result_df
           /\ outcome_throughput' = a.outcome_throughput
    /\ UNCHANGED <<log, cfg, hle_all_dic, hla_paths_dict, control_flow_dict,
                   successful_cases, unsuccessful_cases, results_df, build_vars,
                   script_vars>>

NextDown == DownPrintHleStatistics \/ DownResultsOutcome \/ DownThroughputTables

SpecDown == InitDown /\ [][NextDown]_vars

---------------------------------------------------------------------------
(* Properties of the reporting calls *)

\* C11: with an empty HLE map and an empty path table the three reporting
\* calls complete without raising; results_outcome returns an empty table and
\* logs that no significant paths were found, and the tables written are empty
C11_EmptyResult ==
    (hle_all_dic = EmptyMap /\ df_paths = <<>>) =>
        /\ pc # "failed" /\ error = "none"
        /\ pc \in {"printed", "outcome_reported", "throughput_reported"} =>
              hle_stats = [lines |-> <<>>, total |-> 0]
        /\ pc \in {"outcome_reported", "throughput_reported"} =>
              results_df = <<>> /\ logged = NoSignificantPaths
        /\ pc = "throughput_reported" => eval_df = <<>>

\* all three calls were made on the empty HLE map and the empty path table
C11_Witness ==
    /\ pc = "throughput_reported"
    /\ hle_all_dic = EmptyMap /\ df_paths = <<>>
    /\ logged = NoSignificantPaths

\* C13: every reporting call leaves the path table, the HLE map and the
\* outcome partitions as they were before the call
C13_ReadOnlyDownstream ==
    [][/\ df_paths' = df_paths
       /\ hle_all_dic' = hle_all_dic
       /\ successful_cases' = successful_cases
       /\ unsuccessful_cases' = unsuccessful_cases
       /\ outcome_throughput' = outcome_throughput]_vars

\* all three calls were made on a non-empty HLE map and a path table of which
\* a row was significant for the outcome, so the sets were intersected and used
C13_Witness ==
    /\ pc = "throughput_reported"
    /\ hle_all_dic # EmptyMap
    /\ results_df # <<>>
    /\ \E i \in DOMAIN df_paths :
          df_paths[i].participating \cap Range(unsuccessful_cases) # {}

---------------------------------------------------------------------------
(* Windowing (spec 4.1).  Timestamps count half days; a frame is the        *)
(* half-open interval [start, end) of the granularity's width.              *)

\* width of a frame of the given granularity, in half days
frame_width(frame) == IF frame = "weeks" THEN 14 ELSE 2

\* windowing that stops one frame short
windowing_short(trace, frame) ==
    LET first == trace[1]["time:timestamp"]
        last == trace[Len(trace)]["time:timestamp"]
        w == frame_width(frame)
    IN  [k \in 1..((last - first) \div w) |->
            [start |-> first + (k - 1) * w, end |-> first + k * w]]

\* the frames of a case: case-relative buckets from its first event's
\* timestamp up to and including its last event's
windowing(trace, frame) ==
    LET first == trace[1]["time:timestamp"]
        last == trace[Len(trace)]["time:timestamp"]
        w == frame_width(frame)
    IN  [k \in 1..((last - first) \div w + 1) |->
            [start |-> first + (k - 1) * w, end |-> first + k * w]]

\* a case's events in time order
TimedTraces ==
    UNION {{[i \in 1..n |-> ("time:timestamp" :> ts[i])] :
               ts \in {t \in [1..n -> 0..MaxTime] : \A i \in 1..(n - 1) : t[i] <= t[i + 1]}} :
           n \in 1..MaxEvents}

InitFrames ==
    /\ pc = "start"
    /\ \E trace \in TimedTraces : log = <<trace>>
    /\ \E f \in {FRAME, "weeks"} : cfg = [frame |-> f]
    /\ hle_all_dic = EmptyMap
    /\ hla_paths_dict = EmptyMap
    /\ control_flow_dict = EmptyMap
    /\ df_paths = <<>>
    /\ error = "none"
    /\ Idle

\* the feature extractor windows the case
Window ==
    /\ pc = "start"
    /\ frames' = windowing(log[1], cfg.frame)
    /\ pc' = "windowed"
    /\ UNCHANGED <<log, cfg, hle_all_dic, hla_paths_dict, control_flow_dict, df_paths,
                   error, successful_cases, unsuccessful_cases, outcome_throughput,
                   results_df, eval_df, build_vars, hle_stats, logged, resources_set,
                   files, load_calls>>

NextFrames == Window

SpecFrames == InitFrames /\ [][NextFrames]_vars

---------------------------------------------------------------------------
(* Properties of the windowing *)

\* the frames an event falls in
frames_of_event(e) ==
    {k \in DOMAIN frames :
        frames[k].start <= e["time:timestamp"] /\ e["time:timestamp"] < frames[k].end}

---------------------------------------------------------------------------
(* preprocessing.py.  An event log is a sequence of traces, a trace a       *)
(* sequence of events, an event a map from attribute keys to values.  An    *)
(* activity name is the sequence of its characters, so that startswith and  *)
(* the f-string of rename_workflow_activities are computed, a resource is a *)
(* string, a timestamp counts half days.                                    *)

None == "None"

\* an optional argument: not given (the default None), or given as x
NotGiven == {}
Given(x) == {x}
given_value(arg) == CHOOSE x \in arg : TRUE

TO_EXCLUDE == <<"User_1">>

A_Pending == <<"A", "_", "P", "e", "n", "d", "i", "n", "g">>
A_Cancelled == <<"A", "_", "C", "a", "n", "c", "e", "l", "l", "e", "d">>
A_Denied == <<"A", "_", "D", "e", "n", "i", "e", "d">>
Unknown == <<"U", "n", "k", "n", "o", "w", "n">>

\* event.get(key, default)
get(event, key, default) == IF key \in DOMAIN event THEN event[key] ELSE default

\* every event of the log, as <<trace index, event index>>
event_places(l) == UNION {{<<i, j>> : j \in DOMAIN l[i]} : i \in DOMAIN l}

\* get_resources that adds every resource not excluded, empty or missing too
get_resources_unchecked(l, to_exclude) ==
    LET exclude_set == IF to_exclude = NotGiven THEN {} ELSE Range(given_value(to_exclude))
    IN  CallResult("none",
                   {get(l[pl[1]][pl[2]], "org:resource", None) : pl \in event_places(l)}
                       \ exclude_set)

\* get_resources on a pm4py EventLog
get_resources(l, to_exclude) ==
    LET exclude_set == IF to_exclude = NotGiven THEN {} ELSE Range(given_value(to_exclude))
        found == {get(l[pl[1]][pl[2]], "org:resource", None) : pl \in event_places(l)}
    IN  CallResult("none",
                   {res \in found : res # None /\ res # "" /\ res \notin exclude_set})

\* act_name.startswith('W')
startswith_W(act_name) == Len(act_name) >= 1 /\ act_name[1] = "W"

\* the renaming of one event that leaves a name holding a '|' alone
rename_event_once(event) ==
    LET act_name == get(event, "concept:name", <<>>)
        lifecycle == get(event, "lifecycle:transition", Unknown)
    IN  IF startswith_W(act_name) /\ ~ (\E k \in DOMAIN act_name : act_name[k] = "|")
        THEN ("concept:name" :> (act_name \o <<"|">> \o lifecycle)) @@ event
        ELSE event

\* the renaming of one event
rename_event(event) ==
    LET act_name == get(event, "concept:name", <<>>)
        lifecycle == get(event, "lifecycle:transition", Unknown)
    IN  IF startswith_W(act_name)
        THEN ("concept:name" :> (act_name \o <<"|">> \o lifecycle)) @@ event
        ELSE event

\* rename_workflow_activities that appends the lifecycle to every name
rename_workflow_activities_all(l) ==
    [i \in DOMAIN l |-> [j \in DOMAIN l[i] |->
        LET event == l[i][j]
        IN  IF "concept:name" \in DOMAIN event
            THEN ("concept:name" :> (event["concept:name"] \o <<"|">>
                                       \o get(event, "lifecycle:transition", Unknown)))
                    @@ event
            ELSE event]]

\* rename_workflow_activities that also renames the names starting with 'A'
rename_workflow_activities_prefix_A(l) ==
    [i \in DOMAIN l |-> [j \in DOMAIN l[i] |->
        LET event == l[i][j]
            act_name == get(event, "concept:name", <<>>)
        IN  IF Len(act_name) >= 1 /\ act_name[1] \in {"W", "A"}
            THEN ("concept:name" :> (act_name \o <<"|">>
                                       \o get(event, "lifecycle:transition", Unknown)))
                    @@ event
            ELSE event]]

\* rename_workflow_activities: renames in place and returns the log
rename_workflow_activities(l) ==
    [i \in DOMAIN l |-> [j \in DOMAIN l[i] |-> rename_event(l[i][j])]]

\* any(event.get('concept:name') == name for event in trace), name in names
has_activity(trace, names) ==
    \E j \in DOMAIN trace : get(trace[j], "concept:name", None) \in names

\* partition_outcome that looks at the last event only
partition_outcome_last(l) ==
    LET ids == id_list(0, Len(l) - 1)
        ok(i) == Len(l[i + 1]) > 0
                 /\ get(l[i + 1][Len(l[i + 1])], "concept:name", None) = A_Pending
    IN  <<SelectSeq(ids, LAMBDA i : ok(i)), SelectSeq(ids, LAMBDA i : ~ ok(i))>>

\* partition_outcome: (successful_case_ids, unsuccessful_case_ids)
partition_outcome(l) ==
    LET ids == id_list(0, Len(l) - 1)
    IN  <<SelectSeq(ids, LAMBDA i : has_activity(l[i + 1], {A_Pending})),
          SelectSeq(ids, LAMBDA i : ~ has_activity(l[i + 1], {A_Pending}))>>

\* (ts_last - ts_first).days: whole days, rounded down
throughput(trace) ==
    (trace[Len(trace)]["time:timestamp"] - trace[1]["time:timestamp"]) \div 2

\* partition_on_throughput whose second test is an if, not an elif
partition_on_throughput_if(l) ==
    LET ids == id_list(0, Len(l) - 1)
    IN  IF \E i \in DOMAIN l : Len(l[i]) = 0 THEN CallResult("IndexError", <<>>)
        ELSE CallResult("none",
                <<SelectSeq(ids, LAMBDA i : throughput(l[i + 1]) <= 10),
                  SelectSeq(ids, LAMBDA i : throughput(l[i + 1]) < 30),
                  SelectSeq(ids, LAMBDA i : throughput(l[i + 1]) >= 30)>>)

\* partition_on_throughput: (class_under_10, class_10_to_30, class_over_30);
\* trace[0] of an empty trace raises
partition_on_throughput(l) ==
    LET ids == id_list(0, Len(l) - 1)
    IN  IF \E i \in DOMAIN l : Len(l[i]) = 0 THEN CallResult("IndexError", <<>>)
        ELSE CallResult("none",
                <<SelectSeq(ids, LAMBDA i : throughput(l[i + 1]) <= 10),
                  SelectSeq(ids, LAMBDA i : /\ ~ (throughput(l[i + 1]) <= 10)
                                            /\ throughput(l[i + 1]) < 30),
                  SelectSeq(ids, LAMBDA i : /\ ~ (throughput(l[i + 1]) <= 10)
                                            /\ ~ (throughput(l[i + 1]) < 30))>>)

completion_activities == {A_Cancelled, A_Pending, A_Denied}

\* filter_incomplete_cases: attributes_filter.apply keeps the traces with an
\* event whose concept:name is a completion activity; the closing log message
\* divides by the number of cases of the input
filter_incomplete_cases(l) ==
    LET filtered_log == SelectSeq(l, LAMBDA trace : has_activity(trace, completion_activities))
    IN  IF Len(l) = 0 THEN CallResult("ZeroDivisionError", <<>>)
        ELSE CallResult("none", filtered_log)

---------------------------------------------------------------------------
(* The preprocessing part of the scripts (main.py, __main__): after          *)
(* load_event_log, optionally filter_incomplete_cases, then get_resources,   *)
(* rename_workflow_activities, partition_outcome, partition_on_throughput.   *)

W_Call == <<"W", "_", "C", "a", "l", "l">>
O_Created == <<"O", "_", "C", "r", "e", "a", "t", "e", "d">>
start == <<"s", "t", "a", "r", "t">>
complete == <<"c", "o", "m", "p", "l", "e", "t", "e">>

\* events, one per timestamp: 0, 10.5, 11, 29.5, 30 and 31 days
PrepEvents ==
    {("concept:name" :> A_Pending) @@ ("lifecycle:transition" :> complete)
        @@ ("org:resource" :> "User_1") @@ ("time:timestamp" :> 0),
     ("concept:name" :> W_Call) @@ ("lifecycle:transition" :> start)
        @@ ("org:resource" :> "User_2") @@ ("time:timestamp" :> 21),
     ("concept:name" :> W_Call) @@ ("org:resource" :> "") @@ ("time:timestamp" :> 22),
     ("concept:name" :> A_Cancelled) @@ ("lifecycle:transition" :> complete)
        @@ ("org:resource" :> "User_3") @@ ("time:timestamp" :> 59),
     ("concept:name" :> O_Created) @@ ("lifecycle:transition" :> complete)
        @@ ("time:timestamp" :> 60),
     ("concept:name" :> A_Denied) @@ ("lifecycle:transition" :> complete)
        @@ ("org:resource" :> "User_2") @@ ("time:timestamp" :> 62)}

\* traces of no, one or two events in time order
PrepTraces ==
    {<<>>} \cup {<<e>> : e \in PrepEvents}
        \cup {<<pr[1], pr[2]>> :
                 pr \in {q \in PrepEvents \X PrepEvents :
                            q[1]["time:timestamp"] < q[2]["time:timestamp"]}}

PrepLogs == UNION {[1..n -> PrepTraces] : n \in 0..MaxTraces}

InitPrep ==
    /\ pc = "loaded"
    /\ log \in PrepLogs
    /\ \E x \in {NotGiven, Given(<<>>), Given(TO_EXCLUDE)} : cfg = [to_exclude |-> x]
    /\ hle_all_dic = EmptyMap
    /\ hla_paths_dict = EmptyMap
    /\ control_flow_dict = EmptyMap
    /\ df_paths = <<>>
    /\ error = "none"
    /\ Idle

\* log = preprocessing.filter_incomplete_cases(log)
FilterIncompleteCases ==
    /\ pc = "loaded"
    /\ LET r == filter_incomplete_cases(log)
       IN  IF r.raised # "none"
           THEN error' = r.raised /\ pc' = "failed" /\ UNCHANGED log
           ELSE log' = r.value /\ pc' = "filtered" /\ UNCHANGED error
    /\ UNCHANGED <<cfg, hle_all_dic, hla_paths_dict, control_flow_dict, df_paths,
                   successful_cases, unsuccessful_cases, outcome_throughput,
                   results_df, eval_df, build_vars, script_vars>>

\* res_selection = preprocessing.get_resources(log, TO_EXCLUDE)
GetResources ==
    /\ pc \in {"loaded", "filtered"}
    /\ LET r == get_resources(log, cfg.to_exclude)
       IN  resources_set' = r.value /\ error' = r.raised
    /\ pc' = "resources"
    /\ UNCHANGED <<log, cfg, hle_all_dic, hla_paths_dict, control_flow_dict, df_paths,
                   successful_cases, unsuccessful_cases, outcome_throughput,
                   results_df, eval_df, build_vars, hle_stats, logged, frames,
                   files, load_calls>>

\* log = preprocessing.rename_workflow_activities(log)
RenameWorkflowActivities ==
    /\ pc = "resources"
    /\ log' = rename_workflow_activities(log)
    /\ pc' = "renamed"
    /\ UNCHANGED <<cfg, hle_all_dic, hla_paths_dict, control_flow_dict, df_paths, error,
                   successful_cases, unsuccessful_cases, outcome_throughput,
                   results_df, eval_df, build_vars, script_vars>>

\* successful_cases, unsuccessful_cases = preprocessing.partition_outcome(log)
PartitionOutcome ==
    /\ pc = "renamed"
    /\ successful_cases' = partition_outcome(log)[1]
    /\ unsuccessful_cases' = partition_outcome(log)[2]
    /\ pc' = "outcome"
    /\ UNCHANGED <<log, cfg, hle_all_dic, hla_paths_dict, control_flow_dict, df_paths,
                   error, outcome_throughput, results_df, eval_df, build_vars,
                   script_vars>>

\* class_under_5, class_5_to_10, class_over_10 = preprocessing.partition_on_throughput(log)
PartitionOnThroughput ==
    /\ pc = "outcome"
    /\ LET r == partition_on_throughput(log)
       IN  IF r.raised # "none"
           THEN error' = r.raised /\ pc' = "failed" /\ UNCHANGED outcome_throughput
           ELSE outcome_throughput' = r.value /\ pc' = "throughput" /\ UNCHANGED error
    /\ UNCHANGED <<log, cfg, hle_all_dic, hla_paths_dict, control_flow_dict, df_paths,
                   successful_cases, unsuccessful_cases, results_df, eval_df,
                   build_vars, script_vars>>

NextPrep ==
    \/ FilterIncompleteCases
    \/ GetResources
    \/ RenameWorkflowActivities
    \/ PartitionOutcome
    \/ PartitionOnThroughput

SpecPrep == InitPrep /\ [][NextPrep]_vars

---------------------------------------------------------------------------
(* Properties of the preprocessing *)

\* the case indices of the log
log_indices == 0..(Len(log) - 1)

\* case i has an event with the given name
case_has(i, name) ==
    \E j \in DOMAIN log[i + 1] :
        /\ "concept:name" \in DOMAIN log[i + 1][j]
        /\ log[i + 1][j]["concept:name"] = name

\* C14: partition_outcome's two lists are disjoint, hold every case index
\* 0..len(log)-1 exactly once, and a case is successful iff one of its events
\* is named A_Pending
C14_PartitionOutcome ==
    pc \in {"outcome", "throughput"} =>
        /\ Range(successful_cases) \cap Range(unsuccessful_cases) = {}
        /\ Range(successful_cases) \cup Range(unsuccessful_cases) = log_indices
        /\ Len(successful_cases) + Len(unsuccessful_cases) = Len(log)
        /\ \A i \in log_indices : i \in Range(successful_cases) <=> case_has(i, A_Pending)

\* one case of each outcome, the successful one not ending in A_Pending
C14_Witness ==
    /\ pc = "outcome"
    /\ Len(successful_cases) = 1 /\ Len(unsuccessful_cases) = 1
    /\ LET tr == log[successful_cases[1] + 1]
       IN  Len(tr) = 2 /\ tr[2]["concept:name"] # A_Pending

\* whole days between the first and the last event of case i
days_of(i) ==
    LET tr == log[i + 1]
    IN  (tr[Len(tr)]["time:timestamp"] - tr[1]["time:timestamp"]) \div 2

\* C15: class_under_10 holds exactly the cases of at most 10 days,
\* class_over_30 exactly those of more than 30 days, class_10_to_30 the rest
C15_ThroughputBoundaries ==
    pc = "throughput" =>
        /\ Range(outcome_throughput[1]) = {i \in log_indices : days_of(i) <= 10}
        /\ Range(outcome_throughput[3]) = {i \in log_indices : days_of(i) > 30}
        /\ Range(outcome_throughput[2]) =
              {i \in log_indices : days_of(i) > 10 /\ days_of(i) <= 30}

\* C16: on a log of non-empty cases partition_on_throughput's three lists are
\* pairwise disjoint and together hold every case index 0..len(log)-1
C16_ThroughputPartition ==
    pc = "throughput" =>
        /\ \A a, b \in 1..3 :
              a # b => Range(outcome_throughput[a]) \cap Range(outcome_throughput[b]) = {}
        /\ UNION {Range(outcome_throughput[a]) : a \in 1..3} = log_indices
        /\ Len(outcome_throughput[1]) + Len(outcome_throughput[2])
              + Len(outcome_throughput[3]) = Len(log)

\* a log of two cases, one of at most 10 days and one of 11 to 29 days
C16_Witness ==
    /\ pc = "throughput"
    /\ Len(outcome_throughput[1]) = 1
    /\ Len(outcome_throughput[2]) = 1
    /\ days_of(outcome_throughput[1][1]) = 10

\* the event rename_workflow_activities makes of event e
renamed(e) ==
    IF "concept:name" \in DOMAIN e /\ e["concept:name"] # <<>> /\ Head(e["concept:name"]) = "W"
    THEN [k \in DOMAIN e |->
            IF k = "concept:name"
            THEN e[k] \o <<"|">> \o (IF "lifecycle:transition" \in DOMAIN e
                                      THEN e["lifecycle:transition"] ELSE Unknown)
            ELSE e[k]]
    ELSE e

\* C17: rename_workflow_activities changes exactly the names that start
\* with W, to '<name>|<lifecycle:transition>' or '<name>|Unknown'; all else,
\* and the number and order of cases and events, stays
C17_RenameWorkflowActivities ==
    [][(pc = "resources" /\ pc' = "renamed") =>
          /\ Len(log') = Len(log)
          /\ \A i \in DOMAIN log :
                /\ Len(log'[i]) = Len(log[i])
                /\ \A j \in DOMAIN log[i] : log'[i][j] = renamed(log[i][j])]_vars

\* a renamed log with a W event that had a lifecycle, one that had none, and
\* an event of another name
C17_Witness ==
    /\ pc = "renamed"
    /\ \E pl \in event_places(log) : log[pl[1]][pl[2]]["concept:name"] = W_Call \o <<"|">> \o start
    /\ \E pl \in event_places(log) : log[pl[1]][pl[2]]["concept:name"] = W_Call \o <<"|">> \o Unknown
    /\ \E pl \in event_places(log) : log[pl[1]][pl[2]]["concept:name"] = A_Pending

\* C18: filter_incomplete_cases returns, for every log, the empty one too,
\* exactly the cases with an event named A_Cancelled, A_Pending or A_Denied,
\* in their order, and does not raise
C18_FilterIncompleteCases ==
    [][(pc = "loaded" /\ pc' \in {"filtered", "failed"}) =>
          /\ pc' = "filtered"
          /\ error' = "none"
          /\ log' = SelectSeq(log, LAMBDA tr :
                       \E j \in DOMAIN tr : tr[j]["concept:name"] \in
                                               {A_Cancelled, A_Pending, A_Denied})]_vars

\* the resource values of the log's events that are neither missing nor empty
resources_present ==
    {log[pl[1]][pl[2]]["org:resource"] :
        pl \in {q \in event_places(log) :
                   /\ "org:resource" \in DOMAIN log[q[1]][q[2]]
                   /\ log[q[1]][q[2]]["org:resource"] # ""}}

\* C19: get_resources returns the non-empty org:resource values of the log
\* minus to_exclude, never an excluded, missing or empty resource, and None
\* excludes nothing
C19_GetResources ==
    pc = "resources" =>
        /\ error = "none"
        /\ resources_set =
              resources_present \ (IF cfg.to_exclude = NotGiven THEN {}
                                   ELSE Range(given_value(cfg.to_exclude)))
        /\ "" \notin resources_set /\ None \notin resources_set
        /\ cfg.to_exclude = Given(TO_EXCLUDE) => "User_1" \notin resources_set
        /\ cfg.to_exclude = NotGiven => resources_set = resources_present

\* User_1 was excluded from a log that also has an event of empty resource
\* and an event without resource
C19_Witness ==
    /\ pc = "resources"
    /\ cfg.to_exclude = Given(TO_EXCLUDE)
    /\ "User_1" \in resources_present
    /\ resources_set = {"User_2"}
    /\ \E pl \in event_places(log) : "org:resource" \notin DOMAIN log[pl[1]][pl[2]]
    /\ \E pl \in event_places(log) :
          /\ "org:resource" \in DOMAIN log[pl[1]][pl[2]]
          /\ log[pl[1]][pl[2]]["org:resource"] = ""

---------------------------------------------------------------------------
(* load_event_log (main.py).  A path is the sequence of its pieces, a file  *)
(* a record [format, data]; an XES file holds a log, a pickle file the      *)
(* serialised form of one.                                                  *)

\* xes_path.replace('.xes', '.pickle')
cache_path_of(xes_path) ==
    [i \in DOMAIN xes_path |-> IF xes_path[i] = ".xes" THEN ".pickle" ELSE xes_path[i]]

RECURSIVE dump_traces(_)
\* the traces one after the other, each preceded by its length
dump_traces(l) ==
    IF l = <<>> THEN <<>>
    ELSE <<Len(Head(l))>> \o Head(l) \o dump_traces(Tail(l))

\* pickle.dump: the number of traces, then the traces
pickle_dump(l) == <<Len(l)>> \o dump_traces(l)

RECURSIVE load_traces(_, _, _)
\* read n traces from position pos on
load_traces(data, pos, n) ==
    IF n = 0 THEN <<>>
    ELSE <<SubSeq(data, pos + 1, pos + data[pos])>>
            \o load_traces(data, pos + data[pos] + 1, n - 1)

\* pickle.load
pickle_load(data) == load_traces(data, 2, data[1])

XesFile(l) == [format |-> "xes", data |-> l]
PickleFile(l) == [format |-> "pickle", data |-> pickle_dump(l)]

LoadResult(raised, value, source, fs) ==
    [raised |-> raised, value |-> value, source |-> source, files |-> fs]

\* load_event_log that never writes the cache
load_event_log_uncached(fs, xes_path) ==
    IF xes_path \notin DOMAIN fs \/ fs[xes_path].format # "xes"
    THEN LoadResult("FileNotFoundError", <<>>, "none", fs)
    ELSE LoadResult("none", fs[xes_path].data, "xes", fs)

\* load_event_log on the file system fs: the log, where it was read from, and
\* the file system afterwards
load_event_log(fs, xes_path) ==
    LET cache_path == cache_path_of(xes_path)
    IN  IF cache_path \in DOMAIN fs
        THEN IF fs[cache_path].format = "pickle"
             THEN LoadResult("none", pickle_load(fs[cache_path].data), "cache", fs)
             ELSE LoadResult("UnpicklingError", <<>>, "none", fs)
        ELSE IF xes_path \notin DOMAIN fs
             THEN LoadResult("FileNotFoundError", <<>>, "none", fs)
             ELSE LET l == fs[xes_path].data
                  IN  LoadResult("none", l, "xes", (cache_path :> PickleFile(l)) @@ fs)

\* the paths load_event_log is called with; the last is not named '.xes'
XesPaths ==
    {<<"event_logs/BPI2017", ".xes">>, <<"event_logs/BPI2020", ".xes">>,
     <<"event_logs/BPI2017", ".XES">>}

\* logs an XES file may hold: sequences of traces of activity names
LoadLogs ==
    {<<>>, <<<<"a", "b">>, <<>>>>, <<<<"a">>, <<"b">>>>}

InitLoad ==
    /\ pc = "start"
    /\ \E content \in [XesPaths -> LoadLogs] :
          files = [path \in XesPaths |-> XesFile(content[path])]
    /\ log = <<>> /\ cfg = <<>>
    /\ hle_all_dic = EmptyMap
    /\ hla_paths_dict = EmptyMap
    /\ control_flow_dict = EmptyMap
    /\ df_paths = <<>>
    /\ error = "none"
    /\ successful_cases = <<>> /\ unsuccessful_cases = <<>>
    /\ outcome_throughput = <<>> /\ results_df = <<>> /\ eval_df = <<>>
    /\ b_chains = {} /\ b_pending = {} /\ b_merged = EmptyMap
    /\ hle_stats = <<>> /\ logged = "" /\ frames = <<>>
    /\ resources_set = {} /\ load_calls = <<>>

\* log = load_event_log(path)
LoadEventLog ==
    /\ pc \in {"start", "loaded"}
    /\ Len(load_calls) < MaxCalls
    /\ \E xes_path \in XesPaths :
          LET r == load_event_log(files, xes_path)
          IN  IF r.raised # "none"
              THEN /\ error' = r.raised /\ pc' = "failed"
                   /\ UNCHANGED <<log, files, load_calls>>
              ELSE /\ log' = r.value
                   /\ files' = r.files
                   /\ load_calls' = Append(load_calls,
                         [path |-> xes_path, source |-> r.source, log |-> r.value])
                   /\ pc' = "loaded"
                   /\ UNCHANGED error
    /\ UNCHANGED <<cfg, hle_all_dic, hla_paths_dict, control_flow_dict, df_paths,
                   successful_cases, unsuccessful_cases, outcome_throughput,
                   results_df, eval_df, build_vars, hle_stats, logged, frames,
                   resources_set>>

\* between two runs of the script an XES file is replaced by another log
ReplaceXes ==
    /\ pc = "loaded"
    /\ \E xes_path \in XesPaths : \E l \in LoadLogs :
          /\ files[xes_path] # XesFile(l)
          /\ files' = [files EXCEPT ![xes_path] = XesFile(l)]
    /\ UNCHANGED <<pc, log, cfg, hle_all_dic, hla_paths_dict, control_flow_dict,
                   df_paths, error, successful_cases, unsuccessful_cases,
                   outcome_throughput, results_df, eval_df, build_vars, hle_stats,
                   logged, frames, resources_set, load_calls>>

NextLoad == LoadEventLog \/ ReplaceXes

SpecLoad == InitLoad /\ [][NextLoad]_vars

---------------------------------------------------------------------------
(* Properties of load_event_log *)

\* the calls before the j-th that were for the same path
earlier_calls(j) == {i \in 1..(j - 1) : load_calls[i].path = load_calls[j].path}

\* C20: the first call for a path, which finds no cache file, reads the XES
\* file and leaves the cache file behind; every later call for the path reads
\* the cache, not the XES file, and returns the log the first call returned
C20_LoadCaching ==
    \A j \in DOMAIN load_calls :
        /\ cache_path_of(load_calls[j].path) \in DOMAIN files
        /\ files[cache_path_of(load_calls[j].path)].format = "pickle"
        /\ earlier_calls(j) = {} => load_calls[j].source = "xes"
        /\ earlier_calls(j) # {} =>
              /\ load_calls[j].source = "cache"
              /\ \A i \in earlier_calls(j) : load_calls[j].log = load_calls[i].log

\* a path was loaded twice, the XES file replaced in between by another log,
\* and the second call returned the first call's log of two traces
C20_Witness ==
    /\ pc = "loaded"
    /\ \E j \in DOMAIN load_calls :
          /\ earlier_calls(j) # {}
          /\ files[load_calls[j].path] # XesFile(load_calls[j].log)
          /\ Len(load_calls[j].log) = 2
          /\ log = load_calls[Len(load_calls)].log

---------------------------------------------------------------------------
(* Properties of the contingency counts (statistics stage) *)

\* the row of df_paths with the given path
row_of_path(path) == df_paths[CHOOSE i \in DOMAIN df_paths : df_paths[i].path = path]

\* participating / non-participating and the classes each partition the universe
partitions_universe(row, classes) ==
    /\ row.participating \cap row["non-participating"] = {}
    /\ row.participating \cup row["non-participating"] = StatUniverse
    /\ \A a, b \in DOMAIN classes : a # b => Range(classes[a]) \cap Range(classes[b]) = {}
    /\ UNION {Range(classes[a]) : a \in DOMAIN classes} = StatUniverse

\* C21: when participation and the outcome classes each partition the case
\* universe, the cells results_outcome (2 x 2) and throughput_tables (2 x 3)
\* count add up to the universe, the participating cells to |participating|
\* and the non-participating cells to |non-participating|
C21_ContingencyCounts ==
    /\ pc = "outcome_done" =>
          /\ \A i \in DOMAIN df_paths :
                partitions_universe(df_paths[i], <<successful_cases, unsuccessful_cases>>) =>
                   LET r == outcome_row(df_paths[i], Range(successful_cases),
                                        Range(unsuccessful_cases), 0)
                   IN  /\ r["Part&Success"] + r["Part&Unsuccess"]
                             = Cardinality(df_paths[i].participating)
                       /\ r["NonPart&Success"] + r["NonPart&Unsuccess"]
                             = Cardinality(df_paths[i]["non-participating"])
          /\ \A k \in DOMAIN results_df :
                LET r == results_df[k]
                    row == row_of_path(r.Path)
                IN  partitions_universe(row, <<successful_cases, unsuccessful_cases>>) =>
                       /\ r["Part&Success"] + r["Part&Unsuccess"]
                             = Cardinality(row.participating)
                       /\ r["NonPart&Success"] + r["NonPart&Unsuccess"]
                             = Cardinality(row["non-participating"])
                       /\ r["Part&Success"] + r["Part&Unsuccess"] + r["NonPart&Success"]
                             + r["NonPart&Unsuccess"] = Cardinality(StatUniverse)
    /\ pc = "throughput_done" =>
          \A k \in DOMAIN eval_df :
              LET r == eval_df[k]
                  row == row_of_path(r[3])
              IN  partitions_universe(row, outcome_throughput) =>
                     /\ r[4] + r[5] + r[6] = Cardinality(row.participating)
                     /\ r[7] + r[8] + r[9] = Cardinality(row["non-participating"])
                     /\ r[4] + r[5] + r[6] + r[7] + r[8] + r[9] = Cardinality(StatUniverse)

\* throughput_tables wrote a row whose non-participating cases spread over
\* two classes
C21_Witness ==
    /\ pc = "throughput_done"
    /\ \E k \in DOMAIN eval_df :
          /\ eval_df[k][4] > 0
          /\ eval_df[k][8] > 0
          /\ eval_df[k][9] > 0

---------------------------------------------------------------------------
(* Properties of the renaming against the outcome partition (preprocessing) *)

\* C22: partition_outcome returns for the renamed log the successful and
\* unsuccessful case lists it returns for the log before the renaming
C22_RenamingKeepsOutcomes ==
    [][(pc = "resources" /\ pc' = "renamed") =>
          /\ partition_outcome(log')[1] = partition_outcome(log)[1]
          /\ partition_outcome(log')[2] = partition_outcome(log)[2]]_vars

\* the outcome partition of a renamed log: a successful case with a renamed
\* W event next to its A_Pending, and an unsuccessful case of a renamed W event
C22_Witness ==
    /\ pc = "outcome"
    /\ Len(successful_cases) = 1 /\ Len(unsuccessful_cases) = 1
    /\ LET tr == log[successful_cases[1] + 1]
       IN  Len(tr) = 2 /\ tr[2]["concept:name"] = W_Call \o <<"|">> \o start
    /\ LET tr == log[unsuccessful_cases[1] + 1]
       IN  Len(tr) >= 1 /\ tr[1]["concept:name"] = W_Call \o <<"|">> \o Unknown

---------------------------------------------------------------------------
(* The renaming applied repeatedly to a log *)

InitRename ==
    /\ pc = "loaded"
    /\ log \in PrepLogs
    /\ cfg = [to_exclude |-> NotGiven]
    /\ hle_all_dic = EmptyMap
    /\ hla_paths_dict = EmptyMap
    /\ control_flow_dict = EmptyMap
    /\ df_paths = <<>>
    /\ error = "none"
    /\ Idle

\* log = preprocessing.rename_workflow_activities(log)
RenameOnce ==
    /\ pc = "loaded"
    /\ log' = rename_workflow_activities(log)
    /\ pc' = "renamed"
    /\ UNCHANGED <<cfg, hle_all_dic, hla_paths_dict, control_flow_dict, df_paths, error,
                   successful_cases, unsuccessful_cases, outcome_throughput,
                   results_df, eval_df, build_vars, script_vars>>

\* the same call on the log the first call returned
RenameAgain ==
    /\ pc = "renamed"
    /\ log' = rename_workflow_activities(log)
    /\ pc' = "renamed_twice"
    /\ UNCHANGED <<cfg, hle_all_dic, hla_paths_dict, control_flow_dict, df_paths, error,
                   successful_cases, unsuccessful_cases, outcome_throughput,
                   results_df, eval_df, build_vars, script_vars>>

NextRename ==
    \/ RenameOnce
    \/ RenameAgain

SpecRename == InitRename /\ [][NextRename]_vars

\* the activity name of the event at a place of a log
name_at(l, pl) == get(l[pl[1]][pl[2]], "concept:name", <<>>)

\* C23: applying rename_workflow_activities twice to a log yields the same
\* activity names as applying it once
C23_RenameIdempotent ==
    [][(pc = "renamed" /\ pc' = "renamed_twice") =>
          \A pl \in event_places(log) : name_at(log', pl) = name_at(log, pl)]_vars

\* C23, amended: the second application yields the names of the first one for
\* the events whose name does not start with 'W', and appends '|' and the
\* lifecycle once more to every name that starts with 'W'
C23_RenameTwice ==
    [][(pc = "renamed" /\ pc' = "renamed_twice") =>
          /\ event_places(log') = event_places(log)
          /\ \A pl \in event_places(log) :
                LET once == name_at(log, pl)
                    twice == name_at(log', pl)
                    lifecycle == get(log[pl[1]][pl[2]], "lifecycle:transition", Unknown)
                IN  IF startswith_W(once)
                    THEN twice = once \o <<"|">> \o lifecycle
                    ELSE twice = once]_vars

\* a log renamed twice: a W event carrying its lifecycle twice next to an
\* event of another name that kept it
C23_Witness ==
    /\ pc = "renamed_twice"
    /\ \E pl \in event_places(log) :
          name_at(log, pl) = W_Call \o <<"|">> \o start \o <<"|">> \o start
    /\ \E pl \in event_places(log) : name_at(log, pl) = A_Pending

====
